---- MODULE Spec2Model ----
(***************************************************************************)
(* A model of the chat relay of src/main.py: the Socket.IO event handlers  *)
(* connect, disconnect, login, send_message and fetch_messages, the store  *)
(* they write to (tables users and messages) and the events they emit.     *)
(*                                                                         *)
(* Handlers are coroutines on one event loop: the code between two awaits  *)
(* runs without interruption, and at every `await sio.emit(...)` another   *)
(* handler, a connect or a disconnect may run.  Each action below is one   *)
(* such uninterrupted stretch of a handler.  The recipients of an emit are *)
(* fixed when emit is called, so the emit belongs to the stretch before    *)
(* the await.  The store calls (psycopg2) are blocking and never suspend.  *)
(***************************************************************************)
EXTENDS Integers, Sequences, FiniteSets, TLC

(***************************************************************************)
(* Bounds of the model.                                                    *)
(***************************************************************************)
\* Session ids the server hands out; every connection gets a fresh one.
MaxSessions == 2
\* Requests (login, send_message, fetch_messages events) received in a run.
MaxRequests == 2
\* Largest number of ticks between the store's timestamp of an insert and the
\* handler's own reading of the clock at line 131.
MaxSkew == 1
\* Clock ticks per second (datetime has 1000000; isoformat prints the
\* sub-second part only when it is not zero).
TicksPerSecond == 2
\* Rows of the messages table when the server starts on a stocked store.
StockedRows == 101

(***************************************************************************)
(* Program constants.                                                      *)
(***************************************************************************)
WalletMinLen == 32
WalletMaxLen == 44
MaxContentLen == 1000
DefaultLimit == 50
LimitCap == 100

(***************************************************************************)
(* Python values.  A value is None, an int or a str.  A str is kept as its *)
(* sequence of runs <<[c |-> character, n |-> repetitions]>>, adjacent     *)
(* runs having different characters and n > 0, so that two strs are equal  *)
(* exactly when their run sequences are.  A dict holds a function from    *)
(* its keys to values; the payload of an inbound event is a dict or None.  *)
(***************************************************************************)
PyNone == [t |-> "None"]
PyInt(i) == [t |-> "int", v |-> i]
PyStr(runs) == [t |-> "str", v |-> runs]
Rep(c, n) == PyStr(<<[c |-> c, n |-> n]>>)
EmptyStr == PyStr(<< >>)
PyDict(f) == [t |-> "dict", v |-> f]
EmptyDict == PyDict(<< >>)

IsStr(x) == x.t = "str"

RECURSIVE RunsLen(_)
RunsLen(runs) ==
    IF runs = << >> THEN 0 ELSE Head(runs).n + RunsLen(Tail(runs))

\* len(s)
StrLen(s) == RunsLen(s.v)

\* the characters occurring in s
Chars(s) == {s.v[i].c : i \in DOMAIN s.v}

\* str.strip() removes leading and trailing whitespace
Whitespace == {" ", "\t", "\n", "\r"}

RECURSIVE DropLeadingWs(_)
DropLeadingWs(runs) ==
    IF runs # << >> /\ Head(runs).c \in Whitespace
    THEN DropLeadingWs(Tail(runs))
    ELSE runs

RECURSIVE DropTrailingWs(_)
DropTrailingWs(runs) ==
    IF runs # << >> /\ runs[Len(runs)].c \in Whitespace
    THEN DropTrailingWs(SubSeq(runs, 1, Len(runs) - 1))
    ELSE runs

Strip(s) == PyStr(DropTrailingWs(DropLeadingWs(s.v)))

\* Python truth value of None, an int, a str or a dict
Truthy(x) ==
    CASE x.t = "None" -> FALSE
      [] x.t = "int" -> x.v # 0
      [] x.t = "str" -> x.v # << >>
      [] x.t = "dict" -> DOMAIN x.v # {}

\* data.get(key, default) and data.get(key) of a dict
GetOr(data, key, default) ==
    IF key \in DOMAIN data.v THEN data.v[key] ELSE default
Get(data, key) == GetOr(data, key, PyNone)

Min(a, b) == IF a <= b THEN a ELSE b

(***************************************************************************)
(* validate_wallet                                                         *)
(***************************************************************************)
\* mutant: every letter and digit is accepted
valid_chars_alphanumeric ==
    {"0", "1", "2", "3", "4", "5", "6", "7", "8", "9",
     "A", "B", "C", "D", "E", "F", "G", "H", "I", "J", "K", "L", "M", "N",
     "O", "P", "Q", "R", "S", "T", "U", "V", "W", "X", "Y", "Z",
     "a", "b", "c", "d", "e", "f", "g", "h", "i", "j", "k", "l",
     "m", "n", "o", "p", "q", "r", "s", "t", "u", "v", "w", "x", "y", "z"}

valid_chars ==
    {"1", "2", "3", "4", "5", "6", "7", "8", "9",
     "A", "B", "C", "D", "E", "F", "G", "H", "J", "K", "L", "M", "N",
     "P", "Q", "R", "S", "T", "U", "V", "W", "X", "Y", "Z",
     "a", "b", "c", "d", "e", "f", "g", "h", "i", "j", "k",
     "m", "n", "o", "p", "q", "r", "s", "t", "u", "v", "w", "x", "y", "z"}

\* mutant: every non-empty wallet is accepted
validate_wallet_nonempty(wallet) == Truthy(wallet)

validate_wallet(wallet) ==
    IF ~Truthy(wallet) \/ StrLen(wallet) < WalletMinLen
                       \/ StrLen(wallet) > WalletMaxLen
    THEN FALSE
    ELSE \A c \in Chars(wallet) : c \in valid_chars

(***************************************************************************)
(* State.                                                                  *)
(***************************************************************************)
Sessions == 1..MaxSessions

VARIABLES
    status,     \* Session Registry: sid -> "fresh", "connected", "disconnected"
    users,      \* table users: its rows (wallets), in insertion order
    messages,   \* table messages: its rows, the latest inserted first
    nextId,     \* the next value of the sequence behind messages.id
    clock,      \* the time, in ticks, of the latest reading of the clock
    openConns,  \* store connections open between the steps of the handlers
    reqs,       \* every request received so far, with its handler's position
    inbox,      \* sid -> the events that session has received, in order
    call        \* a call of validate_wallet on its own: argument and result

vars == <<status, users, messages, nextId, clock, openConns, reqs, inbox, call>>

Connected == {s \in Sessions : status[s] = "connected"}

(***************************************************************************)
(* datetime.isoformat(): the seconds, and the sub-second part only when it *)
(* is not zero.                                                            *)
(***************************************************************************)
isoformat(t) ==
    IF t % TicksPerSecond = 0
    THEN <<t \div TicksPerSecond>>
    ELSE <<t \div TicksPerSecond, t % TicksPerSecond>>

(***************************************************************************)
(* sio.emit.  An event is delivered to the sessions registered when emit   *)
(* is called: to=sid reaches sid if it is still connected, skip_sid=sid    *)
(* reaches every connected session but sid.  An event addressed to a       *)
(* session that has left is dropped without an exception; the one emit     *)
(* that is let raise is that of line 168, issued while the store           *)
(* connection is open (fault "emit" below).  The field req of a delivered  *)
(* event is history: the request whose handler emitted it.                 *)
(***************************************************************************)
\* mutant: a delivered event is put before the events received earlier
DeliverFirst(to, ev) ==
    [s \in Sessions |-> IF s \in to THEN <<ev>> \o inbox[s] ELSE inbox[s]]

Deliver(to, ev) ==
    [s \in Sessions |-> IF s \in to THEN Append(inbox[s], ev) ELSE inbox[s]]

\* mutant: to=sid forgotten, the event goes to every session
emit_to_everyone(sid, ev) == Deliver(Connected, ev)

\* mutant: the event goes to the other sessions instead of sid
emit_to_others(sid, ev) == Deliver(Connected \ {sid}, ev)

emit_to(sid, ev) == Deliver(Connected \cap {sid}, ev)

\* mutant: skip_sid forgotten, the sender is among the recipients
emit_skip_nobody(sid, ev) == Deliver(Connected, ev)

\* mutant: the first emission goes to the sender alone
emit_skip_others(sid, ev) == Deliver(Connected \cap {sid}, ev)

\* mutant: the broadcast ignores the Session Registry
emit_skip_sid_unregistered(sid, ev) == Deliver(Sessions \ {sid}, ev)

emit_skip_sid(sid, ev) == Deliver(Connected \ {sid}, ev)

Event(name, data, r) == [event |-> name, data |-> data, req |-> r]

ErrorEvent(text, r) == Event("error", [message |-> text], r)

(***************************************************************************)
(* The store.  A store call either succeeds or raises; fault names the     *)
(* statement that raises, "none" when none does.  A row of messages gets   *)
(* its id from the sequence and its created_at from the store's clock,     *)
(* neither is supplied by the INSERT.  For fetch_messages the fault "emit" *)
(* is the emit of line 168 raising, inside the with-blocks, after the      *)
(* SELECT succeeded; the event is then not delivered.                      *)
(***************************************************************************)
LoginFaults == {"none", "connect", "commit"}
SendFaults == {"none", "connect", "insert", "commit"}
FetchFaults == {"none", "select", "emit"}

\* get_db_connection, line 38: the number of open connections once the
\* with-block is entered; when connect raises there is no connection
db_enter(conns, fault) == IF fault = "connect" THEN conns ELSE conns + 1

\* mutant: the connection is closed on the normal exit only, not in a finally
db_exit_no_finally(conns, fault, raised) ==
    IF fault = "connect" \/ raised THEN conns ELSE conns - 1

\* get_db_cursor, lines 50-52, then get_db_connection, lines 40-42: the
\* number of open connections once the with-blocks are left, normally or
\* by an exception; the cursor is closed first, then the connection if
\* there is one
db_exit(conns, fault, raised) == IF fault = "connect" THEN conns ELSE conns - 1

\* the wallets of the rows of a users table
Wallets(table) == {table[i] : i \in DOMAIN table}

\* mutant: a plain INSERT, without ON CONFLICT (wallet) DO NOTHING
ensure_user_plain_insert(table, wallet) == Append(table, wallet)

\* mutant: the user row is not created by the handler
ensure_user_skipped(table, wallet) == table

\* INSERT INTO users (wallet) VALUES (%s) ON CONFLICT (wallet) DO NOTHING
ensure_user(table, wallet) ==
    IF wallet \in Wallets(table) THEN table ELSE Append(table, wallet)

\* mutant: the sequence does not advance
nextval_stuck(seq) == seq

\* nextval of the sequence behind messages.id (SERIAL)
nextval(seq) == seq + 1

\* login, lines 82-88: the users table the with-block leaves, and whether
\* it raised.  Without a commit the insert is rolled back with the connection.
login_store(wallet, fault) ==
    IF fault = "none"
    THEN [ok |-> TRUE, users |-> ensure_user(users, wallet)]
    ELSE [ok |-> FALSE, users |-> users]

\* INSERT INTO messages (sender_wallet, content) VALUES (%s, %s) RETURNING id
\* (the columns id and created_at take the store's defaults)
insert_row(wallet, content, at) ==
    [id |-> nextId, sender_wallet |-> wallet, content |-> content,
     created_at |-> at]

\* send_message, lines 113-125.  The first commit makes the user row durable
\* before the message is inserted; a sequence value drawn by an insert that
\* is not committed is not given back.
send_store(wallet, content, fault, at) ==
    CASE fault = "connect" ->
            [ok |-> FALSE, users |-> users, messages |-> messages,
             nextId |-> nextId]
      [] fault = "insert" ->
            [ok |-> FALSE, users |-> ensure_user(users, wallet),
             messages |-> messages, nextId |-> nextId]
      [] fault = "commit" ->
            [ok |-> FALSE, users |-> ensure_user(users, wallet),
             messages |-> messages, nextId |-> nextval(nextId)]
      [] fault = "none" ->
            [ok |-> TRUE, users |-> ensure_user(users, wallet),
             messages |-> <<insert_row(wallet, content, at)>> \o messages,
             nextId |-> nextval(nextId), message_id |-> nextId]

\* mutant: ORDER BY m.created_at ASC
older(a, b) == a.created_at < b.created_at

\* ORDER BY m.created_at DESC
newer(a, b) == a.created_at > b.created_at

OrderByCreatedDesc(table) == SortSeq(table, newer)

\* SELECT ... FROM messages m ORDER BY m.created_at DESC LIMIT %s
\* (the store rejects a negative LIMIT)
select_recent(limit, fault) ==
    IF fault = "select" \/ limit < 0
    THEN [ok |-> FALSE]
    ELSE [ok |-> TRUE,
          rows |-> SubSeq(OrderByCreatedDesc(messages),
                          1, Min(limit, Len(messages)))]

\* lines 160-167: the rows as dicts
row_dict(r) ==
    [id |-> r.id, sender |-> r.sender_wallet, content |-> r.content,
     created_at |-> isoformat(r.created_at)]

rows_to_messages(rows) == [i \in DOMAIN rows |-> row_dict(rows[i])]

(***************************************************************************)
(* Requests.  reqs[r] is the r-th request taken up by the server: its      *)
(* session, event and payload, the position pc of its handler and the      *)
(* handler's local variable message (None until line 127 assigns it).      *)
(* A handler starts while its session is connected.  Two fields are        *)
(* history: fault, the store fault the handler met ("none" when it did not *)
(* reach the store), and present, the sessions connected when the handler  *)
(* started.                                                                *)
(*   pc = "echo"      suspended in the await of line 134                   *)
(*   pc = "emitting"  suspended in the await of line 168, inside the withs *)
(*   pc = "done"      the last emit of the handler has been issued         *)
(***************************************************************************)
Request(sid, event, data, fault, pc, message) ==
    [sid |-> sid, event |-> event, data |-> data, fault |-> fault, pc |-> pc,
     message |-> message, present |-> Connected]

Requests == DOMAIN reqs

\* mutant: the length test is >= instead of >
send_validation_off_by_one(wallet, content) ==
    IF ~Truthy(wallet) \/ ~validate_wallet(wallet)
        THEN "Invalid wallet address"
    ELSE IF ~Truthy(content) \/ StrLen(Strip(content)) = 0
        THEN "Message cannot be empty"
    ELSE IF StrLen(content) >= MaxContentLen
        THEN "Message too long"
    ELSE "ok"

\* mutant: the content is tested for None only, not stripped
send_validation_no_strip(wallet, content) ==
    IF ~Truthy(wallet) \/ ~validate_wallet(wallet)
        THEN "Invalid wallet address"
    ELSE IF ~Truthy(content)
        THEN "Message cannot be empty"
    ELSE IF StrLen(content) > MaxContentLen
        THEN "Message too long"
    ELSE "ok"

\* the validation of send_message, lines 101-111: "ok" or the error text
send_validation(wallet, content) ==
    IF ~Truthy(wallet) \/ ~validate_wallet(wallet)
        THEN "Invalid wallet address"
    ELSE IF ~Truthy(content) \/ StrLen(Strip(content)) = 0
        THEN "Message cannot be empty"
    ELSE IF StrLen(content) > MaxContentLen
        THEN "Message too long"
    ELSE "ok"

\* mutant: the limit is not capped
fetch_limit_uncapped(data) ==
    IF Truthy(data) /\ data.t = "dict"
    THEN GetOr(data, "limit", PyInt(DefaultLimit)).v
    ELSE DefaultLimit

\* lines 144-146: the limit of fetch_messages (the limits sent are ints,
\* which int() returns unchanged)
fetch_limit(data) ==
    IF Truthy(data) /\ data.t = "dict"
    THEN Min(GetOr(data, "limit", PyInt(DefaultLimit)).v, LimitCap)
    ELSE DefaultLimit

(***************************************************************************)
(* Inputs.                                                                 *)
(***************************************************************************)
WalletA == Rep("1", WalletMinLen)
WalletB == Rep("A", WalletMaxLen)
WalletShort == Rep("1", WalletMinLen - 1)
WalletLong == Rep("A", WalletMaxLen + 1)
WalletBadChar == PyStr(<<[c |-> "1", n |-> WalletMinLen - 1], [c |-> "0", n |-> 1]>>)

ValidWallets == {WalletA, WalletB}
InvalidWallets == {WalletShort, WalletLong, WalletBadChar, EmptyStr}

Hello == PyStr(<<[c |-> "h", n |-> 1], [c |-> "i", n |-> 1]>>)
Blank == Rep(" ", 3)
Longest == Rep("a", MaxContentLen)
TooLong == Rep("a", MaxContentLen + 1)
BlankTooLong == Rep(" ", MaxContentLen + 1)

Payload(wallet, content) == PyDict([wallet |-> wallet, content |-> content])

LoginData ==
    {PyDict([wallet |-> w]) : w \in ValidWallets \cup InvalidWallets}
        \cup {EmptyDict}

SendData ==
    {Payload(w, Hello) : w \in ValidWallets \cup {WalletShort, WalletBadChar}}
        \cup {Payload(WalletA, c) :
                c \in {Longest, EmptyStr, Blank, TooLong, BlankTooLong}}
        \cup {PyDict([content |-> Hello]), PyDict([wallet |-> WalletA])}

Limits == {-1, 0, 2, 500}

FetchData ==
    {PyNone, EmptyDict} \cup {PyDict([limit |-> PyInt(n)]) : n \in Limits}

(***************************************************************************)
(* The handlers.                                                           *)
(***************************************************************************)
\* connect, lines 63-67: every connection is accepted; it gets a fresh sid
Connect(s) ==
    /\ status[s] = "fresh"
    /\ \A t \in Sessions : t < s => status[t] # "fresh"
    /\ status' = [status EXCEPT ![s] = "connected"]
    /\ UNCHANGED <<users, messages, nextId, clock, openConns, reqs, inbox, call>>

\* disconnect, lines 69-71
Disconnect(s) ==
    /\ status[s] = "connected"
    /\ status' = [status EXCEPT ![s] = "disconnected"]
    /\ UNCHANGED <<users, messages, nextId, clock, openConns, reqs, inbox, call>>

\* login, lines 73-93
Login(s, data, fault) ==
    /\ status[s] = "connected"
    /\ Len(reqs) < MaxRequests
    /\ LET r == Len(reqs) + 1
           wallet == Get(data, "wallet")
           db == login_store(wallet, fault)
       IN  IF ~Truthy(wallet) \/ ~validate_wallet(wallet)
           THEN /\ inbox' = emit_to(s, ErrorEvent("Invalid wallet address", r))
                /\ reqs' = Append(reqs, Request(s, "login", data, "none", "done", PyNone))
                /\ users' = users
                /\ openConns' = openConns
           ELSE /\ users' = db.users
                /\ openConns' = db_exit(db_enter(openConns, fault), fault, ~db.ok)
                /\ reqs' = Append(reqs, Request(s, "login", data, fault, "done", PyNone))
                /\ inbox' = IF db.ok
                            THEN emit_to(s, Event("login_success", [wallet |-> wallet], r))
                            ELSE emit_to(s, ErrorEvent("Internal server error", r))
    /\ UNCHANGED <<status, messages, nextId, clock, call>>

\* lines 127-132: the message that is broadcast; created_at is the handler's
\* own reading of the clock, datetime.utcnow()
new_message(message_id, wallet, content, utcnow) ==
    [id |-> message_id, sender |-> wallet, content |-> content,
     created_at |-> isoformat(utcnow)]

\* send_message, lines 96-134 and 137-139: up to the await of the broadcast
\* to the other sessions.  The store stamps the row one tick after the last
\* reading of the clock (a transaction takes time to begin), and the handler
\* reads the clock skew ticks after the store did.
SendMessage(s, data, fault, skew) ==
    /\ status[s] = "connected"
    /\ Len(reqs) < MaxRequests
    /\ LET r == Len(reqs) + 1
           wallet == Get(data, "wallet")
           content == Get(data, "content")
           verdict == send_validation(wallet, content)
           at == clock + 1
           db == send_store(wallet, content, fault, at)
           message == new_message(db.message_id, wallet, content, at + skew)
       IN  IF verdict # "ok"
           THEN /\ inbox' = emit_to(s, ErrorEvent(verdict, r))
                /\ reqs' = Append(reqs, Request(s, "send_message", data, "none", "done", PyNone))
                /\ UNCHANGED <<users, messages, nextId, clock, openConns>>
           ELSE /\ users' = db.users
                /\ messages' = db.messages
                /\ nextId' = db.nextId
                /\ openConns' = db_exit(db_enter(openConns, fault), fault, ~db.ok)
                /\ IF db.ok
                   THEN /\ clock' = at + skew
                        /\ inbox' = emit_skip_sid(s, Event("new_message", message, r))
                        /\ reqs' = Append(reqs, Request(s, "send_message", data, fault, "echo", message))
                   ELSE /\ clock' = clock
                        /\ inbox' = emit_to(s, ErrorEvent("Internal server error", r))
                        /\ reqs' = Append(reqs, Request(s, "send_message", data, fault, "done", PyNone))
    /\ UNCHANGED <<status, call>>

\* mutant: the handler ends after the broadcast, without the echo
SendMessageEchoLost(r) ==
    /\ r \in Requests
    /\ reqs[r].pc = "echo"
    /\ reqs' = [reqs EXCEPT ![r].pc = "done"]
    /\ UNCHANGED <<status, users, messages, nextId, clock, openConns, inbox, call>>

\* send_message, lines 135-136: after the await, the echo to the sender
SendMessageEcho(r) ==
    /\ r \in Requests
    /\ reqs[r].pc = "echo"
    /\ inbox' = emit_to(reqs[r].sid, Event("new_message", reqs[r].message, r))
    /\ reqs' = [reqs EXCEPT ![r].pc = "done"]
    /\ UNCHANGED <<status, users, messages, nextId, clock, openConns, call>>

\* fetch_messages, lines 142-168 and 169-171: up to the await of the emit,
\* which is inside both with-blocks
FetchMessages(s, data, fault) ==
    /\ status[s] = "connected"
    /\ Len(reqs) < MaxRequests
    /\ LET r == Len(reqs) + 1
           limit == fetch_limit(data)
           db == select_recent(limit, fault)
       IN  IF db.ok /\ fault # "emit"
           THEN /\ inbox' = emit_to(s, Event("messages", rows_to_messages(db.rows), r))
                /\ reqs' = Append(reqs, Request(s, "fetch_messages", data, fault, "emitting", PyNone))
                /\ openConns' = db_enter(openConns, fault)
           ELSE /\ inbox' = emit_to(s, ErrorEvent("Internal server error", r))
                /\ reqs' = Append(reqs, Request(s, "fetch_messages", data, fault, "done", PyNone))
                /\ openConns' = db_exit(db_enter(openConns, fault), fault, TRUE)
    /\ UNCHANGED <<status, users, messages, nextId, clock, call>>

\* fetch_messages, after the await of line 168: the with-blocks close the
\* cursor and the connection (lines 50-52 and 40-42)
FetchMessagesRelease(r) ==
    /\ r \in Requests
    /\ reqs[r].pc = "emitting"
    /\ openConns' = db_exit(openConns, reqs[r].fault, FALSE)
    /\ reqs' = [reqs EXCEPT ![r].pc = "done"]
    /\ UNCHANGED <<status, users, messages, nextId, clock, inbox, call>>

(***************************************************************************)
(* Specifications.  Init is a server started on an empty store, with no    *)
(* session connected; InitStocked is one started on a store that already   *)
(* holds StockedRows messages of WalletA.                                  *)
(***************************************************************************)
\* no call of validate_wallet outside the handlers
NoCall == [arg |-> PyNone, done |-> FALSE, ret |-> FALSE]

Init ==
    /\ status = [s \in Sessions |-> "fresh"]
    /\ users = << >>
    /\ messages = << >>
    /\ nextId = 1
    /\ clock = 0
    /\ openConns = 0
    /\ reqs = << >>
    /\ inbox = [s \in Sessions |-> << >>]
    /\ call = NoCall

StockedRow(i) ==
    [id |-> i, sender_wallet |-> WalletA, content |-> Hello, created_at |-> 2 * i]

InitStocked ==
    /\ status = [s \in Sessions |-> "fresh"]
    /\ users = <<WalletA>>
    /\ messages = [i \in 1..StockedRows |-> StockedRow(StockedRows + 1 - i)]
    /\ nextId = StockedRows + 1
    /\ clock = 2 * StockedRows
    /\ openConns = 0
    /\ reqs = << >>
    /\ inbox = [s \in Sessions |-> << >>]
    /\ call = NoCall

Next ==
    \/ \E s \in Sessions : Connect(s)
    \/ \E s \in Sessions : Disconnect(s)
    \/ \E s \in Sessions, data \in LoginData, fault \in LoginFaults :
            Login(s, data, fault)
    \/ \E s \in Sessions, data \in SendData, fault \in SendFaults,
          skew \in 0..MaxSkew :
            SendMessage(s, data, fault, skew)
    \/ \E r \in Requests : SendMessageEcho(r)
    \/ \E s \in Sessions, data \in FetchData, fault \in FetchFaults :
            FetchMessages(s, data, fault)
    \/ \E r \in Requests : FetchMessagesRelease(r)

Spec == Init /\ [][Next]_vars

SpecStocked == InitStocked /\ [][Next]_vars

\* The event loop resumes every handler whose awaited emit has completed.
Resumed ==
    \A r \in 1..MaxRequests :
        WF_vars(SendMessageEcho(r)) /\ WF_vars(FetchMessagesRelease(r))

FairSpec == Spec /\ Resumed

(***************************************************************************)
(* validate_wallet on its own.  The argument is None or a str of up to     *)
(* LongestArg characters: one character repeated, or a run of one          *)
(* character with a single other character before it, after it or in its   *)
(* middle, of the lengths around the two limits.                           *)
(***************************************************************************)
LongestArg == WalletMaxLen + 2

ArgChars == valid_chars_alphanumeric \cup {" ", "-", "_"}

FillChars == {"1", "z"}

\* n times c with one d in front
Front(c, n, d) == PyStr(<<[c |-> d, n |-> 1], [c |-> c, n |-> n]>>)

\* n times c with one d at the end
Back(c, n, d) == PyStr(<<[c |-> c, n |-> n], [c |-> d, n |-> 1]>>)

\* n times c with one d after the first n \div 2
Middle(c, n, d) ==
    PyStr(<<[c |-> c, n |-> n \div 2], [c |-> d, n |-> 1],
            [c |-> c, n |-> n - (n \div 2)]>>)

\* a fill character and a different character
CharPairs == {p \in FillChars \X ArgChars : p[1] # p[2]}

\* the lengths around the two limits
EdgeLens ==
    {1, 2, WalletMinLen - 1, WalletMinLen, WalletMinLen + 1,
     WalletMaxLen - 1, WalletMaxLen, WalletMaxLen + 1, LongestArg}

WalletArgs ==
    {PyNone, EmptyStr}
        \cup {Rep(c, n) : c \in FillChars, n \in 1..LongestArg}
        \cup {Rep(c, n) : c \in ArgChars, n \in EdgeLens}
        \cup UNION {{Front(p[1], n - 1, p[2]), Back(p[1], n - 1, p[2])} :
                        p \in CharPairs, n \in EdgeLens \ {1}}
        \cup {Middle(p[1], n - 1, p[2]) :
                        p \in CharPairs, n \in EdgeLens \ {1, 2}}

InitWallet ==
    /\ status = [s \in Sessions |-> "fresh"]
    /\ users = << >>
    /\ messages = << >>
    /\ nextId = 1
    /\ clock = 0
    /\ openConns = 0
    /\ reqs = << >>
    /\ inbox = [s \in Sessions |-> << >>]
    /\ \E wallet \in WalletArgs :
            call = [arg |-> wallet, done |-> FALSE, ret |-> FALSE]

\* the call validate_wallet(call.arg) returns
ValidateWallet ==
    /\ ~call.done
    /\ call' = [call EXCEPT !.done = TRUE, !.ret = validate_wallet(call.arg)]
    /\ UNCHANGED <<status, users, messages, nextId, clock, openConns, reqs, inbox>>

SpecWallet == InitWallet /\ [][ValidateWallet]_vars

(***************************************************************************)
(* Vocabulary of the properties.                                           *)
(***************************************************************************)
\* the positions of the events of request r in the inbox of session s
EventsOf(s, r) == {i \in DOMAIN inbox[s] : inbox[s][i].req = r}

\* the number of events session s has received from request r
Received(s, r) == Cardinality(EventsOf(s, r))

\* session s has received the event name of request r
Got(s, r, name) ==
    \E i \in EventsOf(s, r) : inbox[s][i].event = name

\* session s has received the error text of request r
GotError(s, r, text) ==
    \E i \in EventsOf(s, r) :
        inbox[s][i].event = "error" /\ inbox[s][i].data.message = text

\* request r is a send_message whose insert succeeded
Sent(r) == reqs[r].event = "send_message" /\ reqs[r].message # PyNone

(***************************************************************************)
(* C1: a send_message whose insert succeeded reaches every other session   *)
(* that was connected when it was broadcast exactly once and no session    *)
(* that was not; the sender receives it at most once, and exactly once     *)
(* when its handler has finished and the sender is still connected (only a *)
(* connected session can receive).  Every one of these events is a         *)
(* new_message with the same payload, whose sender and content are those   *)
(* of the request.                                                         *)
(***************************************************************************)
C1_BroadcastOnce ==
    \A r \in Requests : Sent(r) =>
        LET q == reqs[r] IN
        /\ q.message.sender = q.data.v.wallet
        /\ q.message.content = q.data.v.content
        /\ \A s \in Sessions : \A i \in EventsOf(s, r) :
              /\ inbox[s][i].event = "new_message"
              /\ inbox[s][i].data = q.message
        /\ \A s \in q.present \ {q.sid} : Received(s, r) = 1
        /\ \A s \in Sessions \ q.present : Received(s, r) = 0
        /\ Received(q.sid, r) <= 1
        /\ (q.pc = "done" /\ status[q.sid] = "connected") =>
              Received(q.sid, r) = 1

\* a finished send_message that the sender and another session received
C1_Witness ==
    \E r \in Requests :
        /\ Sent(r) /\ reqs[r].pc = "done"
        /\ reqs[r].present \ {reqs[r].sid} # {}
        /\ \A s \in reqs[r].present : Received(s, r) = 1

(***************************************************************************)
(* C2: round trip.  Every record that fetch_messages has returned for the  *)
(* id of a message sent in this run equals the new_message payload that    *)
(* was broadcast for it, field by field.                                   *)
(***************************************************************************)
C2_RoundTrip ==
    \A r \in Requests : Sent(r) =>
        \A s \in Sessions : \A i \in DOMAIN inbox[s] :
            inbox[s][i].event = "messages" =>
                \A k \in DOMAIN inbox[s][i].data :
                    LET rec == inbox[s][i].data[k] IN
                    rec.id = reqs[r].message.id =>
                        /\ rec.sender = reqs[r].message.sender
                        /\ rec.content = reqs[r].message.content
                        /\ rec.created_at = reqs[r].message.created_at

(***************************************************************************)
(* C3: every request is eventually answered to its session, by the success *)
(* event of its kind or by an error event, unless the session disconnects  *)
(* before the answer is emitted.                                           *)
(***************************************************************************)
SuccessEvent(event) ==
    CASE event = "login" -> "login_success"
      [] event = "send_message" -> "new_message"
      [] event = "fetch_messages" -> "messages"

Answered(r) ==
    \/ Got(reqs[r].sid, r, SuccessEvent(reqs[r].event))
    \/ Got(reqs[r].sid, r, "error")

C3_EventuallyAnswered ==
    \A r \in 1..MaxRequests :
        (r \in Requests) ~>
            (r \in Requests /\ (Answered(r) \/ status[reqs[r].sid] = "disconnected"))

\* a send_message answered by its echo after the await, and a request
\* answered by an error after a store failure
C3_Witness ==
    /\ \E r \in Requests :
            Sent(r) /\ Got(reqs[r].sid, r, "new_message")
    /\ \E r \in Requests :
            reqs[r].fault # "none" /\ GotError(reqs[r].sid, r, "Internal server error")

(***************************************************************************)
(* C4: an error event is delivered to the session that made the request    *)
(* and to no other, and no other session has received any event of a       *)
(* request that was answered by an error.                                  *)
(***************************************************************************)
C4_ErrorsStayPrivate ==
    \A s \in Sessions : \A i \in DOMAIN inbox[s] :
        inbox[s][i].event = "error" =>
            /\ reqs[inbox[s][i].req].sid = s
            /\ \A t \in Sessions \ {s} : Received(t, inbox[s][i].req) = 0

\* a send_message that failed in the store while another session was
\* connected
C4_Witness ==
    \E r \in Requests :
        /\ reqs[r].event = "send_message" /\ reqs[r].fault # "none"
        /\ GotError(reqs[r].sid, r, "Internal server error")
        /\ \E t \in reqs[r].present \ {reqs[r].sid} : status[t] = "connected"

(***************************************************************************)
(* C5: message ids are unique and strictly increasing in insertion order:  *)
(* in the table, and among the ids the handlers were given, whatever the   *)
(* sessions and the interleaving of the handlers.                          *)
(***************************************************************************)
C5_IdsIncrease ==
    /\ \A i, j \in DOMAIN messages :
            i < j => messages[i].id > messages[j].id
    /\ \A i \in DOMAIN messages : messages[i].id < nextId
    /\ \A r1, r2 \in Requests :
            (r1 < r2 /\ Sent(r1) /\ Sent(r2)) =>
                reqs[r1].message.id < reqs[r2].message.id

\* two sessions inserted a message each, the second while the handler of
\* the first was still suspended
C5_Witness ==
    \E r1, r2 \in Requests :
        /\ r1 < r2 /\ Sent(r1) /\ Sent(r2)
        /\ reqs[r1].sid # reqs[r2].sid
        /\ reqs[r1].pc = "echo"

(***************************************************************************)
(* C6: a send_message with a valid wallet is rejected with "Message cannot *)
(* be empty" when its content is empty or all whitespace, rejected with    *)
(* "Message too long" when its content has 1001 characters (not all        *)
(* whitespace), and, when its content has 1000 characters (not all         *)
(* whitespace) and the store does not fail, succeeds: the row is stored    *)
(* and the message broadcast.  A rejected request stores nothing: every    *)
(* row inserted in the run is the row of a send_message that succeeded.    *)
(***************************************************************************)
IsBlank(c) == Chars(c) \subseteq Whitespace

\* request r was answered by the error text alone and ended there
Rejected(r, text) ==
    /\ reqs[r].pc = "done"
    /\ reqs[r].message = PyNone
    /\ Received(reqs[r].sid, r) = 1
    /\ GotError(reqs[r].sid, r, text)

\* the row of request r is in the table, and the sessions present at the
\* broadcast have received the message
StoredAndBroadcast(r) ==
    /\ Sent(r)
    /\ \E i \in DOMAIN messages :
            /\ messages[i].id = reqs[r].message.id
            /\ messages[i].sender_wallet = reqs[r].data.v.wallet
            /\ messages[i].content = reqs[r].data.v.content
    /\ \A s \in reqs[r].present \ {reqs[r].sid} : Got(s, r, "new_message")

HasContent(r) ==
    /\ reqs[r].event = "send_message"
    /\ {"wallet", "content"} \subseteq DOMAIN reqs[r].data.v
    /\ validate_wallet(reqs[r].data.v.wallet)

C6_ContentLimits ==
    /\ \A r \in Requests : HasContent(r) =>
            LET c == reqs[r].data.v.content IN
            /\ IsBlank(c) => Rejected(r, "Message cannot be empty")
            /\ (~IsBlank(c) /\ StrLen(c) = 1001) =>
                    Rejected(r, "Message too long")
            /\ (~IsBlank(c) /\ StrLen(c) = 1000 /\ reqs[r].fault = "none") =>
                    StoredAndBroadcast(r)
    /\ \A i \in DOMAIN messages :
            \E r \in Requests : Sent(r) /\ reqs[r].message.id = messages[i].id

\* a content of 1000 characters was stored and broadcast to another session,
\* and a content of 1001 characters was rejected
C6_Witness ==
    /\ \E r \in Requests :
            /\ HasContent(r) /\ StrLen(reqs[r].data.v.content) = 1000
            /\ StoredAndBroadcast(r)
            /\ reqs[r].present \ {reqs[r].sid} # {}
    /\ \E r \in Requests :
            /\ HasContent(r) /\ StrLen(reqs[r].data.v.content) = 1001
            /\ Rejected(r, "Message too long")

(***************************************************************************)
(* C7: the step of a login or send_message that fails validation (wallet   *)
(* missing or invalid; for send_message, content empty, all whitespace or  *)
(* longer than 1000 characters) leaves the tables users and messages as    *)
(* they were, appends exactly one event, the error with the text of that   *)
(* failure, to the caller's inbox, changes no other inbox and ends the     *)
(* handler.                                                                *)
(***************************************************************************)
\* the text the claim gives for a request, "none" when it passes validation
RejectionText(q) ==
    LET wallet == Get(q.data, "wallet")
        content == Get(q.data, "content")
    IN  IF wallet = PyNone \/ ~validate_wallet(wallet)
            THEN "Invalid wallet address"
        ELSE IF q.event = "send_message" /\ content # PyNone /\ IsBlank(content)
            THEN "Message cannot be empty"
        ELSE IF q.event = "send_message" /\ content # PyNone
                    /\ StrLen(content) > 1000
            THEN "Message too long"
        ELSE "none"

C7_ValidationAborts ==
    [][\A r \in DOMAIN reqs' \ DOMAIN reqs :
         LET q == reqs'[r]
             before == Len(inbox[q.sid])
         IN  (q.event \in {"login", "send_message"} /\ RejectionText(q) # "none") =>
                /\ users' = users
                /\ messages' = messages
                /\ q.pc = "done"
                /\ \A s \in Sessions \ {q.sid} : Len(inbox'[s]) = Len(inbox[s])
                /\ Len(inbox'[q.sid]) = before + 1
                /\ SubSeq(inbox'[q.sid], 1, before) = inbox[q.sid]
                /\ inbox'[q.sid][before + 1].event = "error"
                /\ inbox'[q.sid][before + 1].req = r
                /\ inbox'[q.sid][before + 1].data.message = RejectionText(q)]_vars

\* a login with an invalid wallet and a send_message with blank content
\* were both rejected while another session was connected
C7_Witness ==
    /\ \E r \in Requests :
            /\ reqs[r].event = "login"
            /\ Rejected(r, "Invalid wallet address")
            /\ reqs[r].present \ {reqs[r].sid} # {}
    /\ \E r \in Requests :
            /\ reqs[r].event = "send_message"
            /\ Rejected(r, "Message cannot be empty")
            /\ reqs[r].present \ {reqs[r].sid} # {}
    /\ users = << >> /\ messages = << >>

(***************************************************************************)
(* C8: a fetch_messages that meets no store failure, with no limit or with *)
(* a limit >= 0, is answered by one messages event holding                 *)
(* min(limit, 100, number of stored messages) records, the limit being 50  *)
(* when none is given: at most 50 by default, 100 for a limit of 500, none *)
(* for a limit of 0.  (Stated of the latest request, since when the table  *)
(* has not changed.)                                                       *)
(***************************************************************************)
RequestedLimit(data) ==
    IF data.t = "None" THEN 50
    ELSE IF "limit" \in DOMAIN data.v THEN data.v.limit.v
    ELSE 50

C8_FetchCount ==
    LET r == Len(reqs) IN
    (r > 0 /\ reqs[r].event = "fetch_messages" /\ reqs[r].fault = "none"
           /\ RequestedLimit(reqs[r].data) >= 0) =>
        /\ Received(reqs[r].sid, r) = 1
        /\ \A i \in EventsOf(reqs[r].sid, r) :
              /\ inbox[reqs[r].sid][i].event = "messages"
              /\ Len(inbox[reqs[r].sid][i].data) =
                    Min(RequestedLimit(reqs[r].data), Min(100, Len(messages)))

\* on a table of more than 100 rows, one session has been answered 100
\* records and then none
C8_Witness ==
    /\ Len(messages) > 100
    /\ \E s \in Sessions :
            /\ Len(inbox[s]) = 2
            /\ inbox[s][1].event = "messages" /\ Len(inbox[s][1].data) = 100
            /\ inbox[s][2].event = "messages" /\ Len(inbox[s][2].data) = 0

(***************************************************************************)
(* C9: the records of a messages event are in strictly descending order of *)
(* creation time and of id, and they are the most recent rows of the       *)
(* table: every row left out is older, and has a smaller id, than every    *)
(* record returned.  (Stated of the latest request, since when the table   *)
(* has not changed.)                                                       *)
(***************************************************************************)
\* the time an isoformat text stands for
IsoTicks(text) ==
    text[1] * TicksPerSecond + (IF Len(text) = 2 THEN text[2] ELSE 0)

Descending(list) ==
    \A i \in 1..(Len(list) - 1) :
        /\ list[i].id > list[i + 1].id
        /\ IsoTicks(list[i].created_at) > IsoTicks(list[i + 1].created_at)

MostRecent(list) ==
    LET ids == {list[i].id : i \in DOMAIN list}
        last == list[Len(list)]
    IN  /\ Cardinality(ids) = Len(list)
        /\ \A k \in DOMAIN messages :
              IF messages[k].id \in ids
              THEN \E i \in DOMAIN list :
                      /\ list[i].id = messages[k].id
                      /\ IsoTicks(list[i].created_at) = messages[k].created_at
              ELSE /\ list # << >> => messages[k].id < last.id
                   /\ list # << >> =>
                         messages[k].created_at < IsoTicks(last.created_at)

C9_NewestFirst ==
    LET r == Len(reqs) IN
    (r > 0 /\ reqs[r].event = "fetch_messages") =>
        \A i \in EventsOf(reqs[r].sid, r) :
            inbox[reqs[r].sid][i].event = "messages" =>
                /\ Descending(inbox[reqs[r].sid][i].data)
                /\ MostRecent(inbox[reqs[r].sid][i].data)

\* a fetch_messages returned the message sent in this run first, then older
\* rows, and left out rows of the table
C9_Witness ==
    LET r == Len(reqs) IN
    /\ r > 0 /\ reqs[r].event = "fetch_messages"
    /\ \E i \in EventsOf(reqs[r].sid, r) :
          /\ inbox[reqs[r].sid][i].event = "messages"
          /\ Len(inbox[reqs[r].sid][i].data) > 1
          /\ Len(inbox[reqs[r].sid][i].data) < Len(messages)
          /\ \E r1 \in Requests :
                Sent(r1) /\ inbox[reqs[r].sid][i].data[1].id = reqs[r1].message.id

(***************************************************************************)
(* C10: the users table never holds two rows of one wallet, and the step   *)
(* of a login whose wallet already has a row leaves the table as it was    *)
(* and, unless the store fails, answers login_success with that wallet to  *)
(* the caller.                                                             *)
(***************************************************************************)
NoDuplicateUsers ==
    \A i, j \in DOMAIN users : users[i] = users[j] => i = j

C10_LoginIdempotent ==
    [][/\ NoDuplicateUsers'
       /\ \A r \in DOMAIN reqs' \ DOMAIN reqs :
            LET q == reqs'[r]
                before == Len(inbox[q.sid])
            IN  (/\ q.event = "login"
                 /\ "wallet" \in DOMAIN q.data.v
                 /\ q.data.v.wallet \in Wallets(users)) =>
                    /\ users' = users
                    /\ q.fault = "none" =>
                          /\ Len(inbox'[q.sid]) = before + 1
                          /\ inbox'[q.sid][before + 1].event = "login_success"
                          /\ inbox'[q.sid][before + 1].req = r
                          /\ inbox'[q.sid][before + 1].data.wallet = q.data.v.wallet
                          /\ \A s \in Sessions \ {q.sid} :
                                Len(inbox'[s]) = Len(inbox[s])]_vars

\* two logins of one wallet were both answered login_success, and the table
\* holds one row
C10_Witness ==
    /\ Len(users) = 1
    /\ \E r1, r2 \in Requests :
            /\ r1 < r2
            /\ reqs[r1].event = "login" /\ reqs[r2].event = "login"
            /\ reqs[r1].data = reqs[r2].data
            /\ Got(reqs[r1].sid, r1, "login_success")
            /\ Got(reqs[r2].sid, r2, "login_success")

(***************************************************************************)
(* C11: the step of a send_message with a valid wallet and a valid content *)
(* that meets no store failure succeeds whether or not its session has     *)
(* issued a login and whether or not the wallet has a user row: afterwards *)
(* the wallet has exactly one user row (created by this step when it had   *)
(* none), the message is the newest row of the table, and new_message with *)
(* the new id is emitted to the other connected sessions, the handler      *)
(* going on to the echo.                                                   *)
(***************************************************************************)
\* session s has issued a login among the requests reqs
LoggedIn(s) ==
    \E r \in Requests : reqs[r].sid = s /\ reqs[r].event = "login"

\* the payload q.data passes the validation of send_message
ValidSend(q) ==
    /\ q.event = "send_message"
    /\ {"wallet", "content"} \subseteq DOMAIN q.data.v
    /\ validate_wallet(q.data.v.wallet)
    /\ ~IsBlank(q.data.v.content)
    /\ StrLen(q.data.v.content) <= 1000

C11_SendWithoutLogin ==
    [][\A r \in DOMAIN reqs' \ DOMAIN reqs :
         LET q == reqs'[r]
             wallet == q.data.v.wallet
         IN  (ValidSend(q) /\ q.fault = "none") =>
                /\ users' = IF wallet \in Wallets(users) THEN users
                                                         ELSE Append(users, wallet)
                /\ Len(messages') = Len(messages) + 1
                /\ messages'[1].id = nextId
                /\ messages'[1].sender_wallet = wallet
                /\ messages'[1].content = q.data.v.content
                /\ q.pc = "echo"
                /\ q.message.id = nextId
                /\ \A s \in Connected \ {q.sid} :
                      /\ Len(inbox'[s]) = Len(inbox[s]) + 1
                      /\ inbox'[s][Len(inbox'[s])].event = "new_message"
                      /\ inbox'[s][Len(inbox'[s])].req = r
                      /\ inbox'[s][Len(inbox'[s])].data = q.message]_vars

\* a session that issued no login sent a message for a wallet that no login
\* had registered: the wallet has its row, the message is stored and another
\* session has received it
C11_Witness ==
    \E r \in Requests :
        /\ Sent(r)
        /\ ~LoggedIn(reqs[r].sid)
        /\ \A r1 \in Requests : reqs[r1].event # "login"
        /\ users = <<reqs[r].data.v.wallet>>
        /\ \E i \in DOMAIN messages : messages[i].id = reqs[r].message.id
        /\ \E s \in Sessions \ {reqs[r].sid} : Got(s, r, "new_message")

(***************************************************************************)
(* C12: validate_wallet returns False for None, for the empty string, for  *)
(* every string shorter than 32 or longer than 44 characters and for every *)
(* string holding a character outside the 58 letters and digits that are   *)
(* not 0, O, I or l; it returns True for every string of 32 to 44          *)
(* characters all of which are among those 58.                             *)
(***************************************************************************)
Digits == {"0", "1", "2", "3", "4", "5", "6", "7", "8", "9"}

UpperCase ==
    {"A", "B", "C", "D", "E", "F", "G", "H", "I", "J", "K", "L", "M",
     "N", "O", "P", "Q", "R", "S", "T", "U", "V", "W", "X", "Y", "Z"}

LowerCase ==
    {"a", "b", "c", "d", "e", "f", "g", "h", "i", "j", "k", "l", "m",
     "n", "o", "p", "q", "r", "s", "t", "u", "v", "w", "x", "y", "z"}

Base58 == (Digits \cup UpperCase \cup LowerCase) \ {"0", "O", "I", "l"}

WellFormedWallet(w) ==
    /\ IsStr(w)
    /\ StrLen(w) >= 32
    /\ StrLen(w) <= 44
    /\ Chars(w) \subseteq Base58

C12_ValidateWallet ==
    /\ Cardinality(Base58) = 58
    /\ call.done => (call.ret <=> WellFormedWallet(call.arg))

\* validate_wallet has returned for a string of 32 to 44 characters that
\* holds one character outside the alphabet
C12_Witness ==
    /\ call.done /\ ~call.ret
    /\ IsStr(call.arg)
    /\ StrLen(call.arg) = 32
    /\ Cardinality(Chars(call.arg) \ Base58) = 1
    /\ Cardinality(Chars(call.arg)) = 2

(***************************************************************************)
(* C13: the step of a send_message that passes validation and then fails   *)
(* in the store, at the insert of the message or at its commit, leaves the *)
(* tables users and messages exactly as they were.                         *)
(***************************************************************************)
C13_NoPartialState ==
    [][\A r \in DOMAIN reqs' \ DOMAIN reqs :
         LET q == reqs'[r] IN
         (ValidSend(q) /\ q.fault \in {"insert", "commit"}) =>
            /\ users' = users
            /\ messages' = messages]_vars

(***************************************************************************)
(* C14: while a handler is suspended in the await of an emit it holds no   *)
(* open store connection.                                                  *)
(***************************************************************************)
Suspended(r) == reqs[r].pc \in {"echo", "emitting"}

C14_NoConnectionAcrossAwait ==
    \A r \in Requests : Suspended(r) => openConns = 0

(***************************************************************************)
(* C15: the store connections open are exactly those of the handlers       *)
(* suspended inside their with-blocks: a handler that has finished, by     *)
(* normal completion, after a store failure or after a failure of the emit *)
(* issued inside the with-blocks, has closed its connection, and no        *)
(* connection is open when no handler is in progress.                      *)
(***************************************************************************)
InWithBlock == {r \in Requests : reqs[r].pc = "emitting"}

C15_ConnectionsClosed ==
    /\ openConns = Cardinality(InWithBlock)
    /\ (\A r \in Requests : reqs[r].pc = "done") => openConns = 0

\* a fetch_messages whose emit raised inside the with-blocks and a
\* send_message whose commit raised have both finished
C15_Witness ==
    /\ \E r \in Requests :
            /\ reqs[r].event = "fetch_messages" /\ reqs[r].fault = "emit"
            /\ RequestedLimit(reqs[r].data) >= 0
            /\ GotError(reqs[r].sid, r, "Internal server error")
    /\ \E r \in Requests :
            /\ reqs[r].event = "send_message" /\ reqs[r].fault = "commit"
            /\ GotError(reqs[r].sid, r, "Internal server error")
    /\ \A r \in Requests : reqs[r].pc = "done"
    /\ openConns = 0

(***************************************************************************)
(* C16: a successful send_message emits new_message in two separate        *)
(* emissions, first to the connected sessions other than the sender, then  *)
(* to the sender: no step delivers an event of the request both to the     *)
(* sender and to another session, the sender receives its echo only in a   *)
(* step of a handler that had already issued the emission to the others    *)
(* and was suspended after it, and whenever an event of the request is     *)
(* delivered the row of the message is in the table.                       *)
(***************************************************************************)
\* the number of events of request r in the sequence box
CountIn(box, r) == Cardinality({i \in DOMAIN box : box[i].req = r})

C16_OthersThenSender ==
    [][\A r \in DOMAIN reqs' :
         LET q == reqs'[r]
             others == {s \in Sessions \ {q.sid} :
                            CountIn(inbox'[s], r) > CountIn(inbox[s], r)}
             echoed == CountIn(inbox'[q.sid], r) > CountIn(inbox[q.sid], r)
         IN  (q.event = "send_message" /\ q.message # PyNone) =>
                /\ ~(others # {} /\ echoed)
                /\ others # {} => (r \notin DOMAIN reqs /\ q.pc = "echo")
                /\ echoed => (/\ r \in DOMAIN reqs
                              /\ reqs[r].pc = "echo"
                              /\ q.pc = "done"
                              /\ \A s \in q.present \ {q.sid} :
                                    CountIn(inbox[s], r) = 1)
                /\ (others # {} \/ echoed) =>
                      \E i \in DOMAIN messages' :
                          messages'[i].id = q.message.id
                /\ q.pc = "echo" => CountIn(inbox'[q.sid], r) = 0]_vars

\* one send_message has been emitted to the other session and then to its
\* sender, and a second one to the other session but not yet to its sender
C16_Witness ==
    \E r1, r2 \in Requests :
        /\ Sent(r1) /\ reqs[r1].pc = "done"
        /\ reqs[r1].present \ {reqs[r1].sid} # {}
        /\ \A s \in reqs[r1].present : Received(s, r1) = 1
        /\ Sent(r2) /\ reqs[r2].pc = "echo"
        /\ \E s \in reqs[r2].present \ {reqs[r2].sid} : Received(s, r2) = 1
        /\ Received(reqs[r2].sid, r2) = 0

(***************************************************************************)
(* C17: a session receives events only while it is connected: no step      *)
(* adds an event to the inbox of a session that is not connected, so a     *)
(* session that has disconnected receives no new_message of a later        *)
(* send_message, and a session that was not connected when a message was   *)
(* broadcast never holds that message; and connect accepts every           *)
(* connection: it is enabled for the next fresh session id in every state. *)
(***************************************************************************)
NextSid(s) ==
    status[s] = "fresh" /\ \A t \in Sessions : t < s => status[t] # "fresh"

C17_OnlyWhileConnected ==
    [][/\ \A s \in Sessions :
            status[s] # "connected" => inbox'[s] = inbox[s]
       /\ \A r \in DOMAIN reqs' : \A s \in Sessions \ reqs'[r].present :
            CountIn(inbox'[s], r) = 0
       /\ \A s \in Sessions : NextSid(s) => ENABLED Connect(s)]_vars

\* a session received a first message, disconnected, and did not receive
\* the message the other session sent afterwards
C17_Witness ==
    \E s \in Sessions : \E r1, r2 \in Requests :
        /\ status[s] = "disconnected"
        /\ Sent(r1) /\ Got(s, r1, "new_message")
        /\ Sent(r2) /\ reqs[r2].sid # s /\ reqs[r2].pc = "done"
        /\ s \notin reqs[r2].present
        /\ Received(s, r2) = 0
        /\ Got(reqs[r2].sid, r2, "new_message")

(***************************************************************************)
(* C18: fetch_messages is read-only and private: the step that takes up a  *)
(* fetch_messages leaves the tables users and messages as they were, adds  *)
(* exactly one event, messages or error, to the caller's inbox and changes *)
(* no other inbox, and the step that resumes it changes no table and no    *)
(* inbox.  The step of a login leaves the table messages as it was, adds   *)
(* exactly one event, login_success or error, to the caller's inbox and    *)
(* changes no other inbox.                                                 *)
(***************************************************************************)
\* this step added exactly one event to the inbox of session sid, of request
\* r and named in names, and changed no other inbox
OneEventToCaller(sid, r, names) ==
    /\ \A s \in Sessions \ {sid} : inbox'[s] = inbox[s]
    /\ Len(inbox'[sid]) = Len(inbox[sid]) + 1
    /\ SubSeq(inbox'[sid], 1, Len(inbox[sid])) = inbox[sid]
    /\ inbox'[sid][Len(inbox'[sid])].req = r
    /\ inbox'[sid][Len(inbox'[sid])].event \in names

C18_FetchAndLoginPrivate ==
    [][/\ \A r \in DOMAIN reqs' \ DOMAIN reqs :
            LET q == reqs'[r] IN
            /\ q.event = "fetch_messages" =>
                  /\ users' = users
                  /\ messages' = messages
                  /\ nextId' = nextId
                  /\ OneEventToCaller(q.sid, r, {"messages", "error"})
            /\ q.event = "login" =>
                  /\ messages' = messages
                  /\ nextId' = nextId
                  /\ OneEventToCaller(q.sid, r, {"login_success", "error"})
       /\ \A r \in DOMAIN reqs :
            (reqs[r].event = "fetch_messages" /\ reqs'[r] # reqs[r]) =>
                /\ users' = users
                /\ messages' = messages
                /\ inbox' = inbox]_vars

\* with another session connected and a message in the table, a
\* fetch_messages has been answered and its handler has finished
C18_Witness ==
    \E r \in Requests :
        /\ reqs[r].event = "fetch_messages" /\ reqs[r].pc = "done"
        /\ Got(reqs[r].sid, r, "messages")
        /\ reqs[r].present \ {reqs[r].sid} # {}
        /\ \A s \in reqs[r].present \ {reqs[r].sid} :
                status[s] = "connected" /\ Received(s, r) = 0
        /\ Len(messages) = 1

(***************************************************************************)
(* C19: in every state, every row of messages has a sender_wallet that is  *)
(* a well-formed wallet and has a row in users, and a content that is not  *)
(* empty once trimmed and has at most 1000 characters; every wallet of     *)
(* users is well-formed.                                                   *)
(***************************************************************************)
C19_StoreInvariant ==
    /\ \A i \in DOMAIN messages :
            /\ WellFormedWallet(messages[i].sender_wallet)
            /\ messages[i].sender_wallet \in Wallets(users)
            /\ IsStr(messages[i].content)
            /\ StrLen(Strip(messages[i].content)) > 0
            /\ StrLen(messages[i].content) <= 1000
    /\ \A i \in DOMAIN users : WellFormedWallet(users[i])

\* a login has registered one wallet and a send_message of 1000 characters
\* another: users holds two rows and messages one
C19_Witness ==
    /\ Len(users) = 2
    /\ Len(messages) = 1
    /\ StrLen(messages[1].content) = 1000

(***************************************************************************)
(* C20: every session that is still connected has received its new_message *)
(* events in strictly increasing order of id.                              *)
(***************************************************************************)
\* the positions of the new_message events in the inbox of session s
NewMessagesOf(s) ==
    {i \in DOMAIN inbox[s] : inbox[s][i].event = "new_message"}

C20_AllInIdOrder ==
    \A s \in Connected : \A i, j \in NewMessagesOf(s) :
        i < j => inbox[s][i].data.id < inbox[s][j].data.id

(***************************************************************************)
(* C20, amended: every session has received the new_message events of the  *)
(* messages sent by other sessions in strictly increasing order of id,     *)
(* however the handlers interleave; the echo of a session's own message,   *)
(* emitted after a further await, may follow a message with a larger id.   *)
(***************************************************************************)
\* the positions of the new_message events session s received as a
\* broadcast of another session's message
BroadcastsTo(s) ==
    {i \in NewMessagesOf(s) : reqs[inbox[s][i].req].sid # s}

C20_BroadcastsInIdOrder ==
    \A s \in Sessions : \A i, j \in BroadcastsTo(s) :
        i < j => inbox[s][i].data.id < inbox[s][j].data.id

\* a session has received two broadcasts, the second inserted while the
\* handler of the first was suspended before its echo
C20_Witness ==
    \E s \in Connected : \E i, j \in BroadcastsTo(s) :
        /\ i < j
        /\ inbox[s][i].req < inbox[s][j].req
        /\ reqs[inbox[s][i].req].pc = "echo"

====
